---- MODULE Spec2Model ----
(***************************************************************************)
(* deform/form.py: the Field / Form / Button object model.                 *)
(*                                                                         *)
(* Python objects live in a heap: every Field, list, widget and Button is  *)
(* an entry of a sequence and is referred to by its index, so that object  *)
(* identity ("is") and aliasing are visible.  A Field's instance           *)
(* dictionary (__dict__) is a function from attribute names to values; an  *)
(* attribute the instance does not hold is absent from the domain.         *)
(***************************************************************************)
EXTENDS Integers, Sequences, FiniteSets, TLC

VARIABLES
    schema,     \* the colander schema nodes: node id -> attributes
    fields,     \* heap of Field/Form objects
    lists,      \* heap of Python list objects (children lists, button lists)
    widgets,    \* heap of widget objects
    buttons,    \* heap of Button objects
    last,       \* the last call made by the caller and what it produced
    calls       \* calls made on the constructed objects so far

vars == <<schema, fields, lists, widgets, buttons, last, calls>>

----------------------------------------------------------------------------
(* Bounds of the model                                                     *)

MaxNodes == 3       \* schema nodes
MaxButtons == 2     \* entries of the buttons argument of Form
MaxNameLen == 2     \* characters of a button name
MaxCalls == 2       \* calls the caller makes once the tree is constructed
MaxTree == 2        \* Fields of the tree the attribute-level runs construct

----------------------------------------------------------------------------
(* Values                                                                  *)

None == "None"
\* a string argument left at its default None (strings are character sequences)
NoArg == <<"None">>
DefaultRenderer == "default_renderer"
Renderers == {None, "r1"}
Nodes == 1..MaxNodes
\* room on the heap for a full tree and one clone of it
MaxFields == 2 * MaxNodes

\* __dict__ handling
EmptyDict == [k \in {} |-> None]
DictGet(d, k, dflt) == IF k \in DOMAIN d THEN d[k] ELSE dflt

\* dict.update(other): other's entries win
DictUpdate(d, other) ==
    [k \in (DOMAIN d) \cup (DOMAIN other) |->
        IF k \in DOMAIN other THEN other[k] ELSE d[k]]

\* setattr(obj, k, v) on the instance dictionary
DictSet(d, k, v) == [x \in (DOMAIN d) \cup {k} |-> IF x = k THEN v ELSE d[x]]

\* list.append(x), prepending instead
ListPrepend(l, x) == <<x>> \o l

\* list.append(x)
ListAppend(l, x) == Append(l, x)

\* the heap as one value
Heap == [fields |-> fields, lists |-> lists, widgets |-> widgets, buttons |-> buttons]

SetHeap(h) ==
    /\ fields' = h.fields
    /\ lists' = h.lists
    /\ widgets' = h.widgets
    /\ buttons' = h.buttons

\* instrumentation kept beside each Field object (not program state):
\*   makerCalls     how often the default-widget factory ran for this instance
\*   sdefaultReads  how often schema.sdefault was read for this instance
\*   lastAttempt    how the last validate call on this instance ended
\*   born           the schema node's attributes when the original was constructed
\*   src            the Field this one was cloned from (0: constructed)
FreshObs ==
    [makerCalls |-> 0, sdefaultReads |-> 0, lastAttempt |-> "none",
     born |-> EmptyDict, src |-> 0]

\* object.__new__(cls): a new instance with an empty __dict__
NewObj(h, cls) ==
    [h EXCEPT !.fields = Append(@, [cls |-> cls, d |-> EmptyDict, obs |-> FreshObs])]

SnapshotOf(node) ==
    [name |-> schema[node].name, title |-> schema[node].title,
     description |-> schema[node].description, required |-> schema[node].required]

----------------------------------------------------------------------------
(* Field.__init__                                                          *)

RECURSIVE FieldInit(_, _, _, _)
RECURSIVE InitChildren(_, _, _, _, _)

\* Field.__init__(self, schema, renderer=None); self is already allocated
FieldInit(h, self, node, renderer) ==
    LET l == Len(h.lists) + 1
        d0 == [schema |-> node,
               renderer |-> IF renderer = None THEN DefaultRenderer ELSE renderer,
               name |-> schema[node].name,
               title |-> schema[node].title,
               description |-> schema[node].description,
               required |-> schema[node].required,
               children |-> l]
        h0 == [h EXCEPT !.fields[self].d = DictUpdate(@, d0),
                        !.fields[self].obs.born = SnapshotOf(node),
                        !.lists = Append(@, <<>>)]
    IN  InitChildren(h0, self, schema[node].children, 1, renderer)

\* for child in schema.children: self.children.append(Field(child, renderer=renderer))
InitChildren(h, self, kids, i, renderer) ==
    IF i > Len(kids) THEN h
    ELSE LET c == Len(h.fields) + 1
             h1 == FieldInit(NewObj(h, "Field"), c, kids[i], renderer)
             l == h1.fields[self].d.children
             h2 == [h1 EXCEPT !.lists[l] = ListAppend(@, c)]
         IN  InitChildren(h2, self, kids, i + 1, renderer)

----------------------------------------------------------------------------
(* The schema trees the caller may hand in                                 *)

Names == {"a", "b"}

\* ascending enumeration of a set of node ids
Asc(S) == CHOOSE s \in [1..Cardinality(S) -> S] : \A i, j \in 1..Cardinality(S) : i < j => s[i] < s[j]
Reverse(s) == [i \in 1..Len(s) |-> s[Len(s) + 1 - i]]

Parents == {p \in [2..MaxNodes -> Nodes] : \A i \in 2..MaxNodes : p[i] < i}

SchemaOf(p, rev, nm) ==
    [n \in Nodes |->
        [name |-> nm[n], title |-> "T0", description |-> "D0", required |-> TRUE,
         children |-> LET kids == Asc({i \in 2..MaxNodes : p[i] = n})
                      IN  IF rev THEN Reverse(kids) ELSE kids,
         maker |-> (n % 2 = 0),
         sdefault |-> IF n % 2 = 0 THEN "sdA" ELSE "sdB"]]

SchemaChoices == {SchemaOf(p, rev, nm) : p \in Parents, rev \in BOOLEAN, nm \in [Nodes -> Names]}

----------------------------------------------------------------------------
(* Button and Form                                                         *)

Alphabet == {"a", "B"}

Upper(c) == CASE c = "a" -> "A" [] c = "b" -> "B" [] OTHER -> c
Lower(c) == CASE c = "A" -> "a" [] c = "B" -> "b" [] OTHER -> c

\* a capitalisation that upper-cases the first character and keeps the rest
capitalizeFirstOnly(s) == [i \in 1..Len(s) |-> IF i = 1 THEN Upper(s[i]) ELSE s[i]]

\* str.capitalize(): first character upper-cased, every other one lower-cased
capitalize(s) == [i \in 1..Len(s) |-> IF i = 1 THEN Upper(s[i]) ELSE Lower(s[i])]

\* Button.__init__(self, name='submit', title=None, value=None)
ButtonInit(name, title, value) ==
    [name |-> name,
     title |-> IF title = NoArg THEN capitalize(name) ELSE title,
     value |-> IF value = NoArg THEN name ELSE value]

\* an entry of the buttons argument: a string, or a reference to a Button object
StrEntry(s) == [str |-> s]
ObjEntry(b) == [obj |-> b]
IsBasestring(e) == "str" \in DOMAIN e

RECURSIVE AddButtons(_, _, _, _)
\* for button in buttons: wrap strings into Button, _buttons.append(button)
AddButtons(h, lb, bs, i) ==
    IF i > Len(bs) THEN h
    ELSE LET e == bs[i]
             b == IF IsBasestring(e) THEN Len(h.buttons) + 1 ELSE e.obj
             h1 == IF IsBasestring(e)
                   THEN [h EXCEPT !.buttons = Append(@, ButtonInit(e.str, NoArg, NoArg))]
                   ELSE h
             h2 == [h1 EXCEPT !.lists[lb] = ListAppend(@, b)]
         IN  AddButtons(h2, lb, bs, i + 1)

\* a Form constructor that leaves the widget to the lazy default
FormInitNoWidget(h, self, node, renderer, action, method, bs) ==
    LET h1 == FieldInit(h, self, node, renderer)
        lb == Len(h1.lists) + 1
        h2 == AddButtons([h1 EXCEPT !.lists = Append(@, <<>>)], lb, bs, 1)
        d1 == [action |-> action, method |-> method, buttons |-> lb]
    IN  [h2 EXCEPT !.fields[self].d = DictUpdate(@, d1)]

\* Form.__init__(self, schema, renderer=None, action='.', method='POST', buttons=())
FormInit(h, self, node, renderer, action, method, bs) ==
    LET h1 == FieldInit(h, self, node, renderer)
        lb == Len(h1.lists) + 1
        h2 == AddButtons([h1 EXCEPT !.lists = Append(@, <<>>)], lb, bs, 1)
        w == Len(h2.widgets) + 1
        d1 == [action |-> action, method |-> method, buttons |-> lb, widget |-> w]
    IN  [h2 EXCEPT !.widgets = Append(@, [kind |-> "FormWidget", madeFor |-> 0]),
                   !.fields[self].d = DictUpdate(@, d1)]

\* cls(schema): the constructor call with every other argument defaulted
Construct(h, cls, node) ==
    LET self == Len(h.fields) + 1
    IN  IF cls = "Form"
        THEN FormInit(NewObj(h, "Form"), self, node, None, ".", "POST", <<>>)
        ELSE FieldInit(NewObj(h, "Field"), self, node, None)

----------------------------------------------------------------------------
(* Field.__getitem__                                                       *)

KeyError(name) == [kind |-> "KeyError", key |-> name]
Returned(v) == [kind |-> "return", value |-> v]

\* a lookup that returns the last child of that name
getitemLast(h, self, name) ==
    LET kids == h.lists[h.fields[self].d.children]
        hits == {i \in 1..Len(kids) : h.fields[kids[i]].d.name = name}
    IN  IF hits = {} THEN KeyError(name)
        ELSE Returned(kids[CHOOSE i \in hits : \A j \in hits : j <= i])

\* for child in self.children: if child.name == name: return child; raise KeyError(name)
getitem(h, self, name) ==
    LET kids == h.lists[h.fields[self].d.children]
        hits == {i \in 1..Len(kids) : h.fields[kids[i]].d.name = name}
    IN  IF hits = {} THEN KeyError(name)
        ELSE Returned(kids[CHOOSE i \in hits : \A j \in hits : i <= j])

----------------------------------------------------------------------------
(* Field.clone                                                             *)

\* an update that leaves the constructor's snapshot of the schema in place
cloneDictNoSnapshot(constructed, own) ==
    DictUpdate(constructed,
        [k \in (DOMAIN own) \ {"name", "title", "description", "required"} |-> own[k]])

\* an update that skips the memoised attributes
cloneDictNoLazy(constructed, own) ==
    DictUpdate(constructed, [k \in (DOMAIN own) \ {"widget", "default"} |-> own[k]])

\* an update that keeps the constructor's own button list
cloneDictOwnButtons(constructed, own) ==
    DictUpdate(constructed, [k \in (DOMAIN own) \ {"buttons"} |-> own[k]])

\* cloned.__dict__.update(self.__dict__)
cloneDict(constructed, own) == DictUpdate(constructed, own)

RECURSIVE clone(_, _)
RECURSIVE cloneEach(_, _, _, _)

\* Field.clone(self): the heap afterwards and the reference returned.  The child
\* Fields the discarded part of the constructor run allocated are unreachable
\* and are not retained; its lists, widgets and buttons are.
clone(h, self) ==
    LET c == Len(h.fields) + 1
        me == h.fields[self]
        hc == Construct(h, me.cls, me.d.schema)
        made == [cls |-> me.cls,
                 d |-> cloneDict(hc.fields[c].d, me.d),
                 obs |-> [FreshObs EXCEPT !.born = me.obs.born, !.src = self]]
        h1 == [hc EXCEPT !.fields = Append(h.fields, made)]
        r == cloneEach(h1, h1.lists[made.d.children], 1, <<>>)
        l == Len(r.h.lists) + 1
    IN  [h |-> [r.h EXCEPT !.lists = Append(@, r.refs), !.fields[c].d.children = l],
         ref |-> c]

\* [ field.clone() for field in self.children ]
cloneEach(h, kids, i, acc) ==
    IF i > Len(kids) THEN [h |-> h, refs |-> acc]
    ELSE LET r == clone(h, kids[i])
         IN  cloneEach(r.h, kids, i + 1, Append(acc, r.ref))

----------------------------------------------------------------------------
(* The lazy attributes                                                     *)

\* Field.widget's body: which factory it calls
widgetMaker(node) ==
    IF schema[node].maker THEN "default_widget_maker" ELSE "TextInputWidget"

\* reading field.widget through decorator.reify: the getter runs when the
\* instance holds no value, and its result is stored on the instance
GetWidget(h, self) ==
    LET d == h.fields[self].d
        w == Len(h.widgets) + 1
    IN  IF "widget" \in DOMAIN d THEN [h |-> h, val |-> d.widget]
        ELSE [h |-> [h EXCEPT !.widgets = Append(@, [kind |-> widgetMaker(d.schema), madeFor |-> self]),
                              !.fields[self].d = DictSet(@, "widget", w),
                              !.fields[self].obs.makerCalls = @ + 1],
              val |-> w]

\* reading field.default through decorator.reify; the getter returns schema.sdefault
GetDefault(h, self) ==
    LET d == h.fields[self].d
        v == schema[d.schema].sdefault
    IN  IF "default" \in DOMAIN d THEN [h |-> h, val |-> d.default]
        ELSE [h |-> [h EXCEPT !.fields[self].d = DictSet(@, "default", v),
                              !.fields[self].obs.sdefaultReads = @ + 1],
              val |-> v]

----------------------------------------------------------------------------
(* Collaborators, as their contracts describe them                         *)

Raise == "raise"
FieldsInputs == {<< >>, << <<"color", "red">> >>}
PStructs == {"p1"}
CStructs == {"c1"}
Values == {"v1"}
Invalids == {"e1", "e2"}
Defaults == {"d1"}

\* what the collaborators answer during one call of validate; a collaborator
\* that is not reached answers nothing ("-")
Envs ==
    {[parse |-> Raise, wdeser |-> "-", sdeser |-> "-"]}
    \cup {[parse |-> p, wdeser |-> Raise, sdeser |-> "-"] : p \in PStructs}
    \cup [parse : PStructs, wdeser : CStructs, sdeser : Values \cup Invalids]

\* widget.serialize(field, cstruct): cstruct None means "use field.default"
WidgetSerialize(h, w, self, cstruct) ==
    IF cstruct = None
    THEN LET r == GetDefault(h, self)
         IN  [h |-> r.h, out |-> [widget |-> w, field |-> self, shown |-> r.val]]
    ELSE [h |-> h, out |-> [widget |-> w, field |-> self, shown |-> cstruct]]

\* widget.handle_error(field, error): records the error on the field it is given
HandleError(h, w, self, e) == [h EXCEPT !.fields[self].d = DictSet(@, "error", e)]

\* Field.error: the class attribute None unless the instance holds one
ErrorOf(f) == DictGet(f.d, "error", None)

----------------------------------------------------------------------------
(* Field.render and Field.validate                                         *)

\* return self.widget.serialize(self, cstruct)
render(h, self, cstruct) ==
    LET rw == GetWidget(h, self)
    IN  WidgetSerialize(rw.h, rw.val, self, cstruct)

Call(fn, args, res) == [fn |-> fn, args |-> args, res |-> res]

ValidationFailure(self, cstruct, e) ==
    [kind |-> "ValidationFailure", field |-> self, cstruct |-> cstruct, error |-> e]

\* an except clause that raises without calling the widget's hook
validateExceptNoHook(h, self, cstruct, e) ==
    [h |-> h, trace |-> << >>, outcome |-> ValidationFailure(self, cstruct, e)]

\* an except clause that calls the hook and falls off the end (returns None)
validateExceptSwallow(h, self, cstruct, e) ==
    LET rw == GetWidget(h, self)
    IN  [h |-> HandleError(rw.h, rw.val, self, e),
         trace |-> << Call("handle_error", <<rw.val, self, e>>, None) >>,
         outcome |-> Returned(None)]

\* lines 151-153: self.widget.handle_error(self, e), then raise ValidationFailure
validateExcept(h, self, cstruct, e) ==
    LET rw == GetWidget(h, self)
    IN  [h |-> HandleError(rw.h, rw.val, self, e),
         trace |-> << Call("handle_error", <<rw.val, self, e>>, None) >>,
         outcome |-> ValidationFailure(self, cstruct, e)]

\* Field.validate(self, fields) against the collaborators' answers env:
\* the heap afterwards, the collaborator calls made in order, and how it ended
validate(h, self, fieldsArg, env) ==
    IF env.parse = Raise
    THEN [h |-> h,
          trace |-> << Call("parse", <<fieldsArg>>, Raise) >>,
          outcome |-> [kind |-> "propagated", from |-> "parse"]]
    ELSE
    LET pstruct == env.parse
        rw == GetWidget(h, self)
        t1 == << Call("parse", <<fieldsArg>>, pstruct) >>
    IN  IF env.wdeser = Raise
        THEN [h |-> rw.h,
              trace |-> t1 \o << Call("deserialize", <<rw.val, self, pstruct>>, Raise) >>,
              outcome |-> [kind |-> "propagated", from |-> "deserialize"]]
        ELSE
        LET cstruct == env.wdeser
            node == rw.h.fields[self].d.schema
            t2 == t1 \o << Call("deserialize", <<rw.val, self, pstruct>>, cstruct),
                           Call("schema.deserialize", <<node, cstruct>>, env.sdeser) >>
        IN  IF env.sdeser \in Invalids
            THEN LET x == validateExcept(rw.h, self, cstruct, env.sdeser)
                 IN  [h |-> x.h, trace |-> t2 \o x.trace, outcome |-> x.outcome]
            ELSE [h |-> rw.h, trace |-> t2, outcome |-> Returned(env.sdeser)]

----------------------------------------------------------------------------
(* The caller                                                              *)

FieldIds == 1..Len(fields)

RECURSIVE TreeSize(_, _)
RECURSIVE TreeSizes(_, _, _)
\* the number of Field objects of the tree under f
TreeSize(h, f) == 1 + TreeSizes(h, h.lists[h.fields[f].d.children], 1)
TreeSizes(h, kids, i) ==
    IF i > Len(kids) THEN 0 ELSE TreeSize(h, kids[i]) + TreeSizes(h, kids, i + 1)

FixedNames == [n \in Nodes |-> IF n % 2 = 1 THEN "a" ELSE "b"]

InitHeap ==
    /\ fields = <<>>
    /\ lists = <<>>
    /\ widgets = <<>>
    /\ buttons = <<>>
    /\ last = [op |-> "init"]
    /\ calls = 0

Init ==
    /\ schema \in {SchemaOf(p, FALSE, FixedNames) : p \in Parents}
    /\ InitHeap

\* every child order
InitShapes ==
    /\ schema \in {SchemaOf(p, rev, FixedNames) : p \in Parents, rev \in BOOLEAN}
    /\ InitHeap

\* every child order and every naming
InitNamed ==
    /\ schema \in SchemaChoices
    /\ InitHeap

\* one schema: a chain
InitChain ==
    /\ schema = SchemaOf([i \in 2..MaxNodes |-> i - 1], FALSE, FixedNames)
    /\ InitHeap

RECURSIVE SubtreeSize(_)
RECURSIVE SumSizes(_, _)
\* the number of schema nodes under node
SubtreeSize(node) == 1 + SumSizes(schema[node].children, 1)
SumSizes(kids, i) == IF i > Len(kids) THEN 0 ELSE SubtreeSize(kids[i]) + SumSizes(kids, i + 1)

\* the schema nodes and the Fields the attribute-level runs work on
SmallNodes == {n \in Nodes : SubtreeSize(n) <= MaxTree}
Clonable == {f \in FieldIds : Len(fields) + TreeSize(Heap, f) <= 2 * MaxTree}

\* one more call on the constructed objects
Called == calls < MaxCalls /\ calls' = calls + 1

\* Field(schema, renderer): the one tree the caller constructs; every other
\* tree is obtained by clone()
ConstructField(node, renderer) ==
    /\ fields = <<>>
    /\ LET self == Len(fields) + 1
           h == FieldInit(NewObj(Heap, "Field"), self, node, renderer)
       IN  /\ SetHeap(h)
           /\ last' = [op |-> "Field", self |-> self]
    /\ UNCHANGED <<schema, calls>>

\* Button(name, title, value)
MakeButton(name, title, value) ==
    /\ fields = <<>>
    /\ buttons = <<>>
    /\ buttons' = Append(buttons, ButtonInit(name, title, value))
    /\ last' = [op |-> "Button", self |-> Len(buttons) + 1,
                name |-> name, title |-> title, value |-> value]
    /\ UNCHANGED <<schema, fields, lists, widgets, calls>>

\* Form(schema, renderer, action, method, buttons)
ConstructForm(node, renderer, action, method, bs) ==
    /\ fields = <<>>
    /\ LET self == Len(fields) + 1
           h == FormInit(NewObj(Heap, "Form"), self, node, renderer, action, method, bs)
       IN  /\ SetHeap(h)
           /\ last' = [op |-> "Form", self |-> self, bs |-> bs, had |-> Len(buttons)]
    /\ UNCHANGED <<schema, calls>>

\* field.clone()
Clone(f) ==
    /\ Called
    /\ Len(fields) + TreeSize(Heap, f) <= MaxFields
    /\ LET r == clone(Heap, f)
       IN  /\ SetHeap(r.h)
           /\ last' = [op |-> "clone", self |-> f, res |-> r.ref]
    /\ UNCHANGED schema

\* reading field.widget
AccessWidget(f) ==
    /\ Called
    /\ LET r == GetWidget(Heap, f)
       IN  /\ SetHeap(r.h)
           /\ last' = [op |-> "widget", self |-> f, res |-> r.val]
    /\ UNCHANGED schema

\* reading field.default
AccessDefault(f) ==
    /\ Called
    /\ LET r == GetDefault(Heap, f)
       IN  /\ SetHeap(r.h)
           /\ last' = [op |-> "default", self |-> f, res |-> r.val]
    /\ UNCHANGED schema

\* field.widget = <a widget the caller made>
AssignWidget(f) ==
    /\ Called
    /\ LET w == Len(widgets) + 1
       IN  /\ widgets' = Append(widgets, [kind |-> "assigned", madeFor |-> 0])
           /\ fields' = [fields EXCEPT ![f].d = DictSet(@, "widget", w)]
           /\ last' = [op |-> "setwidget", self |-> f, res |-> w]
    /\ UNCHANGED <<schema, lists, buttons>>

\* field.default = v
AssignDefault(f, v) ==
    /\ Called
    /\ fields' = [fields EXCEPT ![f].d = DictSet(@, "default", v)]
    /\ last' = [op |-> "setdefault", self |-> f, res |-> v]
    /\ UNCHANGED <<schema, lists, widgets, buttons>>

\* field.render(cstruct)
Render(f, cstruct) ==
    /\ Called
    /\ LET r == render(Heap, f, cstruct)
       IN  /\ SetHeap(r.h)
           /\ last' = [op |-> "render", self |-> f, cstruct |-> cstruct, res |-> r.out]
    /\ UNCHANGED schema

\* field.validate(fields)
Validate(f, fieldsArg, env) ==
    /\ Called
    /\ LET r == validate(Heap, f, fieldsArg, env)
           how == IF r.outcome.kind = "return" THEN "ok"
                  ELSE IF r.outcome.kind = "ValidationFailure" THEN "failed"
                  ELSE "fault"
       IN  /\ SetHeap([r.h EXCEPT !.fields[f].obs.lastAttempt = how])
           /\ last' = [op |-> "validate", self |-> f, fieldsArg |-> fieldsArg,
                       trace |-> r.trace, outcome |-> r.outcome]
    /\ UNCHANGED schema

\* field[name]
GetItem(f, name) ==
    /\ Called
    /\ last' = [op |-> "getitem", self |-> f, name |-> name,
                outcome |-> getitem(Heap, f, name)]
    /\ UNCHANGED <<schema, fields, lists, widgets, buttons>>

\* the caller changes a schema node's attributes
SchemaVersions ==
    { [name |-> "a", title |-> "T0", description |-> "D0", required |-> TRUE],
      [name |-> "b", title |-> "T1", description |-> "D1", required |-> FALSE],
      [name |-> "a", title |-> "T1", description |-> "D0", required |-> FALSE] }

MutateSchema(n, v) ==
    /\ Called
    /\ fields # <<>>
    /\ SnapshotOf(n) # v
    /\ schema' = [schema EXCEPT ![n].name = v.name, ![n].title = v.title,
                                ![n].description = v.description,
                                ![n].required = v.required]
    /\ last' = [op |-> "mutate", node |-> n]
    /\ UNCHANGED <<fields, lists, widgets, buttons>>

----------------------------------------------------------------------------
(* Specifications                                                          *)

OkEnv == [parse |-> "p1", wdeser |-> "c1", sdeser |-> "v1"]
BadEnv == [parse |-> "p1", wdeser |-> "c1", sdeser |-> "e1"]

\* lazy attributes, assignment and cloning
Next ==
    \/ \E n \in SmallNodes : ConstructField(n, None)
    \/ \E n \in SmallNodes : ConstructForm(n, None, ".", "POST", <<>>)
    \/ \E f \in Clonable : Clone(f)
    \/ \E f \in FieldIds : AccessWidget(f)
    \/ \E f \in FieldIds : AccessDefault(f)
    \/ \E f \in FieldIds : AssignWidget(f)
    \/ \E f \in FieldIds, v \in Defaults : AssignDefault(f, v)
    \/ \E f \in FieldIds, c \in {None, "c1"} : Render(f, c)
    \/ \E f \in FieldIds, env \in {OkEnv, BadEnv} : Validate(f, << >>, env)

Spec == Init /\ [][Next]_vars

\* validation against every answer of the collaborators
NextValidate ==
    \/ \E n \in SmallNodes : ConstructField(n, None)
    \/ \E n \in SmallNodes : ConstructForm(n, None, ".", "POST", <<>>)
    \/ \E f \in FieldIds, a \in FieldsInputs, env \in Envs : Validate(f, a, env)

SpecValidate == Init /\ [][NextValidate]_vars

\* construction and cloning of whole trees
NextTree ==
    \/ \E n \in Nodes, r \in Renderers : ConstructField(n, r)
    \/ \E n \in Nodes, r \in Renderers : ConstructForm(n, r, ".", "POST", <<>>)
    \/ \E f \in FieldIds : Clone(f)

SpecTree == InitShapes /\ [][NextTree]_vars

\* lookup by name
NextLookup ==
    \/ \E n \in Nodes : ConstructField(n, None)
    \/ \E n \in Nodes : ConstructForm(n, None, ".", "POST", <<>>)
    \/ \E f \in FieldIds : Clone(f)
    \/ \E f \in FieldIds, name \in Names \cup {"zz"} : GetItem(f, name)

SpecLookup == InitNamed /\ [][NextLookup]_vars

\* schema mutation after construction
NextSnapshot ==
    \/ \E n \in SmallNodes : ConstructField(n, None)
    \/ \E n \in SmallNodes : ConstructForm(n, None, ".", "POST", <<>>)
    \/ \E n \in Nodes, v \in SchemaVersions : MutateSchema(n, v)
    \/ \E f \in Clonable : Clone(f)
    \/ \E f \in FieldIds, name \in Names : GetItem(f, name)
    \/ \E f \in FieldIds : Render(f, None)
    \/ \E f \in FieldIds, env \in {OkEnv, BadEnv} : Validate(f, << >>, env)

SpecSnapshot == Init /\ [][NextSnapshot]_vars

\* buttons
ButtonNames == UNION {[1..n -> Alphabet] : n \in 0..MaxNameLen}
ButtonEntries ==
    {StrEntry(s) : s \in [1..MaxNameLen -> Alphabet]} \cup {ObjEntry(b) : b \in 1..Len(buttons)}
ButtonArgs == UNION {[1..n -> ButtonEntries] : n \in 0..MaxButtons}

NextButton ==
    \/ \E n \in ButtonNames, t \in {NoArg, <<"G", "o", "!">>}, v \in {NoArg, <<"1">>} :
          MakeButton(n, t, v)
    \/ \E bs \in ButtonArgs : ConstructForm(MaxNodes, None, ".", "POST", bs)

SpecButton == InitChain /\ [][NextButton]_vars

----------------------------------------------------------------------------
(* Claims                                                                  *)

Kids(f) == lists[fields[f].d.children]
Has(f, k) == k \in DOMAIN fields[f].d
IsClone(f) == fields[f].obs.src # 0

RECURSIVE FieldsUnder(_, _)
\* the Field objects reachable from f through children lists, in heap h
FieldsUnder(h, f) ==
    LET kids == h.lists[h.fields[f].d.children]
    IN  {f} \cup UNION {FieldsUnder(h, kids[i]) : i \in 1..Len(kids)}

\* every mutable object reachable from f in heap h, tagged by its kind
Reach(h, f) ==
    LET fs == FieldsUnder(h, f)
        ls == {h.fields[g].d.children : g \in fs}
        ws == {h.fields[g].d.widget : g \in {x \in fs : "widget" \in DOMAIN h.fields[x].d}}
        bl == {h.fields[g].d.buttons : g \in {x \in fs : "buttons" \in DOMAIN h.fields[x].d}}
        bs == UNION {{h.lists[l][i] : i \in 1..Len(h.lists[l])} : l \in bl}
    IN  {<<"Field", g>> : g \in fs} \cup {<<"list", l>> : l \in ls \cup bl}
        \cup {<<"widget", w>> : w \in ws} \cup {<<"Button", b>> : b \in bs}

HeapAfter == [fields |-> fields', lists |-> lists', widgets |-> widgets', buttons |-> buttons']

C2_CallOrder ==
    last.op = "validate"
    => LET t == last.trace
           n == Len(t)
           order == <<"parse", "deserialize", "schema.deserialize", "handle_error">>
           hooks == {i \in 1..n : t[i].fn = "handle_error"}
           invalid == n >= 3 /\ t[3].res \in Invalids
       IN  /\ n >= 1 /\ n <= 4
           /\ \A i \in 1..n : t[i].fn = order[i]
           /\ \A i \in 1..n : (i <= 2 /\ t[i].res = Raise) =>
                 /\ n = i
                 /\ last.outcome.kind = "propagated"
                 /\ last.outcome.from = t[i].fn
           /\ invalid <=> (Cardinality(hooks) = 1)
           /\ ~invalid => hooks = {}
           /\ invalid =>
                 /\ t[4].args = <<fields[last.self].d.widget, last.self, t[3].res>>
                 /\ ErrorOf(fields[last.self]) = t[3].res
           /\ (last.outcome.kind = "ValidationFailure") <=> invalid
           /\ last.outcome.kind = "return" => n = 3

C2_Witness ==
    /\ last.op = "validate"
    /\ Len(last.trace) = 4
    /\ last.trace[4].fn = "handle_error"
    /\ last.outcome.kind = "ValidationFailure"

\* C3: a field's error is absent before any validation, present after a
\* validate call that ended in a validation failure, and absent again once the
\* last validate call on the field succeeded.
C3_ErrorTracksLastAttempt ==
    \A f \in FieldIds :
        /\ fields[f].obs.lastAttempt = "none" => ErrorOf(fields[f]) = None
        /\ fields[f].obs.lastAttempt = "failed" => ErrorOf(fields[f]) # None
        /\ fields[f].obs.lastAttempt = "ok" => ErrorOf(fields[f]) = None

\* C4: (i) a step that changes a field of a clone leaves the field it was
\* cloned from unchanged, and the other way round; (ii) clone() gives every
\* new field the identical widget/default its source had resolved, leaves an
\* unresolved one unresolved on both sides, and neither runs the widget factory
\* nor reads schema.sdefault; (iii) a later lazy resolution makes a widget
\* object no field held before.
C4_Step ==
    /\ \A c \in FieldIds :
          IsClone(c) =>
            LET s == fields[c].obs.src
            IN  /\ fields'[c].d # fields[c].d => fields'[s].d = fields[s].d
                /\ fields'[s].d # fields[s].d => fields'[c].d = fields[c].d
    /\ (fields # <<>> /\ Len(fields') > Len(fields)) =>
          /\ \A c \in (Len(fields) + 1)..Len(fields') :
                LET s == fields'[c].obs.src
                IN  /\ s \in FieldIds
                    /\ fields'[s] = fields[s]
                    /\ \A k \in {"widget", "default"} :
                          IF k \in DOMAIN fields[s].d
                          THEN k \in DOMAIN fields'[c].d /\ fields'[c].d[k] = fields[s].d[k]
                          ELSE k \notin DOMAIN fields'[c].d
                    /\ fields'[c].obs.makerCalls = 0
                    /\ fields'[c].obs.sdefaultReads = 0
          /\ \A w \in (Len(widgets) + 1)..Len(widgets') : widgets'[w].madeFor = 0
    /\ \A f \in FieldIds :
          fields'[f].obs.makerCalls > fields[f].obs.makerCalls =>
            /\ ~Has(f, "widget")
            /\ fields'[f].d.widget > Len(widgets)
            /\ \A g \in FieldIds \ {f} : fields'[g] = fields[g]

C4_CloneIndependence == [][C4_Step]_vars

C4_Witness ==
    \E c \in FieldIds :
        /\ IsClone(c)
        /\ Has(c, "widget") /\ Has(fields[c].obs.src, "widget")
        /\ fields[c].d.widget = fields[fields[c].obs.src].d.widget
        /\ widgets[fields[c].d.widget].madeFor = fields[c].obs.src
        /\ fields[c].obs.makerCalls = 0

\* C5 as claimed: a tree and its clone share no mutable object
C5_ShareOnlySchema ==
    \A c \in FieldIds : IsClone(c) => Reach(Heap, c) \cap Reach(Heap, fields[c].obs.src) = {}

\* C5 as amended: a tree and its clone share no Field object and no children
\* list; what clone() does share by reference, besides the schema, is every
\* other attribute value the source field held: a resolved widget instance and
\* a Form's buttons list with its Buttons.
C5_Step ==
    /\ \A c \in 1..Len(fields') :
          fields'[c].obs.src # 0 =>
            LET s == fields'[c].obs.src
                shared == Reach(HeapAfter, c) \cap Reach(HeapAfter, s)
            IN  \A o \in shared : o[1] \in {"widget", "Button"} \/
                                  (o[1] = "list" /\ \E g \in 1..Len(fields') :
                                      "buttons" \in DOMAIN fields'[g].d /\ fields'[g].d.buttons = o[2])
    /\ (fields # <<>> /\ Len(fields') > Len(fields)) =>
          \A c \in (Len(fields) + 1)..Len(fields') :
              LET s == fields'[c].obs.src
              IN  \A k \in {"widget", "buttons"} :
                     k \in DOMAIN fields[s].d =>
                        /\ k \in DOMAIN fields'[c].d
                        /\ fields'[c].d[k] = fields[s].d[k]
                        /\ <<IF k = "widget" THEN "widget" ELSE "list", fields[s].d[k]>>
                              \in Reach(HeapAfter, c) \cap Reach(HeapAfter, s)

C5_SharedByReference == [][C5_Step]_vars

C5_Witness ==
    \E c \in FieldIds :
        /\ IsClone(c)
        /\ fields[c].cls = "Form"
        /\ fields[c].d.buttons = fields[fields[c].obs.src].d.buttons
        /\ fields[c].d.widget = fields[fields[c].obs.src].d.widget
        /\ Len(Kids(c)) > 0

\* C6: for every Field instance the default-widget factory runs at most once
\* and is the type's default_widget_maker when declared, else the text-input
\* widget; schema.sdefault is read at most once; a read, render or validate
\* returns and keeps the value the instance already holds; once the instance
\* holds a widget (a Form from its constructor on) the factory never runs.
C6_Step ==
    /\ \A f \in 1..Len(fields') :
          /\ fields'[f].obs.makerCalls <= 1
          /\ fields'[f].obs.sdefaultReads <= 1
          /\ fields'[f].cls = "Form" => fields'[f].obs.makerCalls = 0
    /\ \A w \in 1..Len(widgets') :
          widgets'[w].madeFor # 0 =>
             widgets'[w].kind = IF schema[fields'[widgets'[w].madeFor].d.schema].maker
                                THEN "default_widget_maker" ELSE "TextInputWidget"
    /\ \A f \in FieldIds :
          /\ Has(f, "widget") => fields'[f].obs.makerCalls = fields[f].obs.makerCalls
          /\ Has(f, "default") => fields'[f].obs.sdefaultReads = fields[f].obs.sdefaultReads
          /\ last'.op \in {"widget", "default", "render", "validate"} =>
                \A k \in {"widget", "default"} :
                    Has(f, k) => k \in DOMAIN fields'[f].d /\ fields'[f].d[k] = fields[f].d[k]
    /\ (last'.op = "widget" /\ calls' # calls /\ Has(last'.self, "widget"))
          => last'.res = fields[last'.self].d.widget
    /\ (last'.op = "default" /\ calls' # calls /\ Has(last'.self, "default"))
          => last'.res = fields[last'.self].d.default

C6_ComputedOnce == [][C6_Step]_vars

C6_Witness ==
    /\ last.op = "render"
    /\ fields[last.self].cls = "Field"
    /\ fields[last.self].obs.lastAttempt = "failed"
    /\ fields[last.self].obs.makerCalls = 1
    /\ fields[last.self].obs.sdefaultReads = 1

\* C7: every Field on the heap, constructed or cloned, has one child per child
\* of its schema node, the i-th child mirroring the i-th schema child.
C7_ShapeMirrorsSchema ==
    \A f \in FieldIds :
        LET sk == schema[fields[f].d.schema].children
        IN  /\ Len(Kids(f)) = Len(sk)
            /\ \A i \in 1..Len(sk) : fields[Kids(f)[i]].d.schema = sk[i]

C7_Witness ==
    \E c \in FieldIds :
        /\ IsClone(c)
        /\ Len(Kids(c)) = 2
        /\ schema[fields[c].d.schema].children = <<3, 2>>
        /\ fields[Kids(c)[1]].d.schema = 3
        /\ IsClone(Kids(c)[1])

NameOf(f) == fields[f].d.name

\* C8 as claimed: field[c.name] returns c for every direct child c, and a name
\* no direct child carries raises KeyError
C8_LookupReturnsChild ==
    last.op = "getitem"
    => LET kids == Kids(last.self)
       IN  /\ \A i \in 1..Len(kids) :
                 NameOf(kids[i]) = last.name =>
                    last.outcome.kind = "return" /\ last.outcome.value = kids[i]
           /\ (\A i \in 1..Len(kids) : NameOf(kids[i]) # last.name) =>
                 last.outcome.kind = "KeyError"

\* C8 as amended: field[name] returns the first direct child carrying that
\* name (so field[c.name] is c unless an earlier sibling has c's name), and a
\* name no direct child carries, even one found deeper, raises KeyError.
C8_LookupReturnsFirstChild ==
    last.op = "getitem"
    => LET kids == Kids(last.self)
       IN  /\ \A i \in 1..Len(kids) :
                 (/\ NameOf(kids[i]) = last.name
                  /\ \A j \in 1..(i - 1) : NameOf(kids[j]) # last.name) =>
                    last.outcome.kind = "return" /\ last.outcome.value = kids[i]
           /\ (\A i \in 1..Len(kids) : NameOf(kids[i]) # last.name) =>
                 last.outcome.kind = "KeyError" /\ last.outcome.key = last.name

C8_Witness ==
    /\ last.op = "getitem"
    /\ Len(Kids(last.self)) = 2
    /\ NameOf(Kids(last.self)[1]) = last.name
    /\ NameOf(Kids(last.self)[2]) = last.name
    /\ last.outcome.kind = "return"

\* what the claim says of Button and of Form's buttons, for a default title
\* given as a function of the name
ButtonsAsStated(cap) ==
    /\ last.op = "Button" =>
          LET b == buttons[last.self]
          IN  /\ b.name = last.name
              /\ b.title = IF last.title = NoArg THEN cap[last.name] ELSE last.title
              /\ b.value = IF last.value = NoArg THEN last.name ELSE last.value
    /\ last.op = "Form" =>
          LET l == lists[fields[last.self].d.buttons]
              strs == {i \in 1..Len(last.bs) : IsBasestring(last.bs[i])}
          IN  /\ Len(l) = Len(last.bs)
              /\ \A i \in 1..Len(last.bs) :
                    IF i \in strs
                    THEN /\ l[i] > last.had
                         /\ l[i] <= Len(buttons)
                         /\ buttons[l[i]].name = last.bs[i].str
                         /\ buttons[l[i]].title = cap[last.bs[i].str]
                         /\ buttons[l[i]].value = last.bs[i].str
                    ELSE l[i] = last.bs[i].obj
              /\ \A i, j \in strs : i # j => l[i] # l[j]

FirstUpperRestKept(n) == [i \in 1..Len(n) |-> IF i = 1 THEN Upper(n[i]) ELSE n[i]]
FirstUpperRestLower(n) == [i \in 1..Len(n) |-> IF i = 1 THEN Upper(n[i]) ELSE Lower(n[i])]

\* C9 as claimed: the default title is the name with only its first letter
\* capitalised, the rest unchanged
C9_TitleKeepsRest == ButtonsAsStated([n \in ButtonNames |-> FirstUpperRestKept(n)])

\* C9 as amended: the default title is the name with its first letter
\* upper-cased and every other letter lower-cased; the default value is the
\* name; explicit title and value are kept; Form's buttons has the length and
\* order of the argument, each string replaced by a new Button with those
\* defaults and each Button kept as the same object.
C9_TitleLowersRest == ButtonsAsStated([n \in ButtonNames |-> FirstUpperRestLower(n)])

C9_Witness ==
    /\ last.op = "Form"
    /\ Len(last.bs) = 2
    /\ IsBasestring(last.bs[1]) /\ ~IsBasestring(last.bs[2])
    /\ last.bs[1].str = <<"a", "B">>
    /\ buttons[lists[fields[last.self].d.buttons][1]].title = <<"A", "b">>

\* C10: every Field, constructed or cloned, holds the name, title, description
\* and required its schema node had when the original field was constructed,
\* whatever the schema node holds now.
C10_SnapshotKept ==
    \A f \in FieldIds :
        \A k \in {"name", "title", "description", "required"} :
            fields[f].d[k] = fields[f].obs.born[k]

C10_Witness ==
    /\ last.op = "clone"
    /\ NameOf(last.res) # schema[fields[last.res].d.schema].name
    /\ fields[last.res].d.required # schema[fields[last.res].d.schema].required
====
